---- MODULE Spec2Model ----
(***************************************************************************)
(* Model of the query-execution core of the obsidian-neo4j plugin:         *)
(*   QueryProcessor.execute / processResults  (src/src/query/...)          *)
(*   Neo4jConnection                           (src/unnamed/part_001)      *)
(*                                                                         *)
(* JavaScript values are modelled as tagged records.  A JavaScript string  *)
(* is a sequence of chunks (each chunk a TLA+ string standing for a run of *)
(* characters), so that concatenation, join and includes are computed.     *)
(***************************************************************************)
EXTENDS Integers, Sequences, FiniteSets, TLC

(***************************************************************************)
(* Bounds of the model                                                     *)
(***************************************************************************)
\* most fields, over all its records, of a record list drawn as the input of
\* processResults
MaxFields == 4
\* concurrent callers of execute
NumExecs == 2

(***************************************************************************)
(* State                                                                   *)
(***************************************************************************)
VARIABLES
  driver,       \* Neo4jConnection.driver: index into drivers, 0 for null
  config,       \* Neo4jConnection.config: a configuration or Null
  isConnected,  \* Neo4jConnection.isConnected
  drivers,      \* every driver created: [closeCalls]
  sessions,     \* every session created: [driver, owner, runs, closeCalls]
  conn,         \* per caller of connect: position, argument, caught error, outcome
  exec,         \* per caller of execute: position, locals and outcome
  prRecords,    \* processResults: the records argument
  prRi,         \* processResults: index of the record being iterated
  prFi,         \* processResults: number of its fields already visited
  prSt,         \* processResults: the locals
  prStatus,     \* processResults: "running", "returned" or "thrown"
  prResult,     \* processResults: the returned value
  now,          \* the clock read by Date.now()
  test,         \* per caller of testConnection: position, temporary driver, outcome
  button,       \* the execute button of a code block: [text, disabled]
  ui            \* executeQuery of that block: position, originalText, resultsArea

connVars == <<driver, config, isConnected, drivers, conn>>
execVars == <<sessions, exec, now>>
testVars == <<test>>
uiVars == <<button, ui>>
prVars == <<prRecords, prRi, prFi, prSt, prStatus, prResult>>
vars == <<driver, config, isConnected, drivers, sessions, conn, exec,
          prRecords, prRi, prFi, prSt, prStatus, prResult, now, test, button, ui>>

(***************************************************************************)
(* JavaScript values                                                       *)
(***************************************************************************)
Undefined == [t |-> "undefined"]
Null == [t |-> "null"]
Num(n) == [t |-> "number", v |-> n]
StrV(s) == [t |-> "string", v |-> s]
Arr(e) == [t |-> "array", e |-> e]
\* an object: its prototype (class) and its members
Obj(p, f) == [t |-> "object", proto |-> p, f |-> f]
NoMembers == [m \in {} |-> Undefined]
EmptyObject == Obj("Object", NoMembers)

\* typeof value === 'object' (null is excluded by the truthiness test)
IsObject(v) == v.t \in {"object", "array"}
\* JavaScript truthiness
Truthy(v) ==
  CASE v.t \in {"undefined", "null"} -> FALSE
    [] v.t = "number" -> v.v # 0
    [] v.t = "string" -> v.v # <<>>
    [] OTHER -> TRUE
\* 'm' in v, for an object v
In(m, v) == v.t = "object" /\ m \in DOMAIN v.f
\* v.m ; reading a member of undefined or null is a TypeError (see CanRead)
Get(v, m) == IF In(m, v) THEN v.f[m] ELSE Undefined
CanRead(v) == v.t \notin {"undefined", "null"}

Digit == <<"0", "1", "2", "3", "4", "5", "6", "7", "8", "9">>
RECURSIVE IntToString(_)
\* decimal rendering of a non-negative number, one chunk per digit
IntToString(n) ==
  IF n < 10 THEN <<Digit[n + 1]>>
  ELSE IntToString(n \div 10) \o <<Digit[(n % 10) + 1]>>

\* neo4j Integer: a high/low pair of halves.  The driver's halves are 32 bits
\* wide; they are 16 bits wide here, so that every number fits a TLC integer.
HalfRadix == 256 * 256
Integer(high, low) == Obj("Integer", [low |-> Num(low), high |-> Num(high)])
\* Integer.prototype.toNumber
toNumber(v) == Get(v, "high").v * HalfRadix + Get(v, "low").v

\* value.toString() for the receivers that occur as identities
toString(v) ==
  CASE v.t = "string" -> v.v
    [] v.t = "number" -> IntToString(v.v)
    [] v.t = "object" /\ v.proto = "Integer" -> IntToString(toNumber(v))
    [] OTHER -> <<"[object Object]">>

RECURSIVE join(_, _)
\* Array.prototype.join over an array of strings
join(e, sep) ==
  IF Len(e) = 0 THEN <<>>
  ELSE IF Len(e) = 1 THEN toString(e[1])
  ELSE toString(e[1]) \o sep \o join(Tail(e), sep)

\* s.includes(p): p occurs in s as a contiguous run
includes(s, p) ==
  \E i \in 1..(Len(s) - Len(p) + 1) : SubSeq(s, i, i + Len(p) - 1) = p

\* a || b
OrElse(a, b) == IF Truthy(a) THEN a ELSE b

TypeError(msg) == Obj("TypeError", [message |-> StrV(msg)])

(***************************************************************************)
(* Type guards (QueryProcessor.ts 196-206)                                 *)
(***************************************************************************)
isNode(value) ==
  Truthy(value) /\ IsObject(value) /\ In("labels", value) /\ In("properties", value)

isRelationship(value) ==
  Truthy(value) /\ IsObject(value) /\ In("type", value) /\ In("start", value)
    /\ In("end", value)

isPath(value) == Truthy(value) /\ IsObject(value) /\ In("segments", value)

(***************************************************************************)
(* formatScalarValue (QueryProcessor.ts 178-191)                           *)
(***************************************************************************)
RECURSIVE formatScalarValue(_)
formatScalarValue(value) ==
  IF Truthy(value) /\ IsObject(value) /\ In("low", value) /\ In("high", value)
  THEN IF value.proto = "Integer" THEN Num(toNumber(value)) ELSE StrV(toString(value))
  ELSE IF value.t = "array"
  THEN Arr([i \in 1..Len(value.e) |-> formatScalarValue(value.e[i])])
  ELSE value

(***************************************************************************)
(* processResults (QueryProcessor.ts 98-176)                               *)
(*                                                                         *)
(* The locals of one call are the record st:                               *)
(*   nodes          the Map, as its entries in insertion order             *)
(*   relationships  the relationships array                                *)
(*   scalarData     the rows pushed so far                                 *)
(*   recordData     the row under construction for the current record      *)
(*   hasGraphData   the flag of the current record                         *)
(*   thrown         the exception that ended the call, or Undefined        *)
(***************************************************************************)
\* accumulators kept by the processor across calls: a call starts from what
\* an earlier call of execute has returned
NewLocals_shared ==
  LET returned == {e \in DOMAIN exec : exec[e].pending.state = "fulfilled"} IN
  IF returned = {}
  THEN [nodes |-> <<>>, relationships |-> <<>>, scalarData |-> <<>>,
        recordData |-> NoMembers, hasGraphData |-> FALSE, thrown |-> Undefined]
  ELSE LET data == exec[CHOOSE e \in returned : TRUE].pending.value.data IN
       [nodes |-> data.nodes, relationships |-> data.relationships,
        scalarData |-> IF data.scalarData = Undefined THEN <<>> ELSE data.scalarData.e,
        recordData |-> NoMembers, hasGraphData |-> FALSE, thrown |-> Undefined]

NewLocals ==
  [nodes |-> <<>>, relationships |-> <<>>, scalarData |-> <<>>,
   recordData |-> NoMembers, hasGraphData |-> FALSE, thrown |-> Undefined]

Throw(st, msg) == [st EXCEPT !.thrown = TypeError(msg)]
HasThrown(st) == st.thrown # Undefined

CannotRead(member) == <<"Cannot read properties of undefined (reading '", member, "')">>
NotAFunction(member) == <<member, " is not a function">>

\* nodes.has(id)
has(nodes, id) == \E i \in 1..Len(nodes) : nodes[i].id = id

\* nodes.set(id, {...}) without the has() test: a later occurrence replaces
\* the entry, in place
setNode_lastWins(st, n) ==
  LET nodeId == toString(Get(n, "identity"))
      labels == Get(n, "labels")
      joined == IF labels.t = "array" THEN join(labels.e, <<":">>) ELSE <<>>
      entry == [id |-> nodeId,
                label |-> IF joined # <<>> THEN joined ELSE <<"Node">>,
                properties |-> OrElse(Get(n, "properties"), EmptyObject)] IN
  IF ~CanRead(n) \/ ~CanRead(Get(n, "identity")) \/ labels.t # "array"
  THEN Throw(st, CannotRead("identity"))
  ELSE IF has(st.nodes, nodeId)
  THEN [st EXCEPT !.nodes = [i \in 1..Len(@) |-> IF @[i].id = nodeId THEN entry ELSE @[i]]]
  ELSE [st EXCEPT !.nodes = Append(@, entry)]

\* const id = n.identity.toString(); if (!nodes.has(id)) nodes.set(id, {...})
\* (lines 112-119, 133-140, 143-150); n is value, segment.start or segment.end
setNode(st, n) ==
  IF ~CanRead(n) THEN Throw(st, CannotRead("identity"))
  ELSE LET identity == Get(n, "identity") IN
  IF ~CanRead(identity) THEN Throw(st, CannotRead("toString"))
  ELSE LET nodeId == toString(identity) IN
  IF has(st.nodes, nodeId) THEN st
  ELSE LET labels == Get(n, "labels") IN
  IF ~CanRead(labels) THEN Throw(st, CannotRead("join"))
  ELSE IF labels.t # "array" THEN Throw(st, NotAFunction("join"))
  ELSE LET joined == join(labels.e, <<":">>) IN
    [st EXCEPT !.nodes = Append(@,
       [id |-> nodeId,
        label |-> IF joined # <<>> THEN joined ELSE <<"Node">>,
        properties |-> OrElse(Get(n, "properties"), EmptyObject)])]

\* a push that skips a relationship whose id is already in the list
pushRelationship_dedup(st, r) ==
  IF ~CanRead(r) \/ ~CanRead(Get(r, "identity")) \/ ~CanRead(Get(r, "start"))
       \/ ~CanRead(Get(r, "end"))
  THEN Throw(st, CannotRead("toString"))
  ELSE IF \E i \in 1..Len(st.relationships) :
            st.relationships[i].id = toString(Get(r, "identity"))
  THEN st
  ELSE [st EXCEPT !.relationships = Append(@,
         [id |-> toString(Get(r, "identity")),
          source |-> toString(Get(r, "start")),
          target |-> toString(Get(r, "end")),
          type |-> OrElse(Get(r, "type"), StrV(<<"RELATES_TO">>)),
          properties |-> OrElse(Get(r, "properties"), EmptyObject)])]

\* relationships.unshift({...}): the newest relationship comes first
pushRelationship_unshift(st, r) ==
  IF ~CanRead(r) THEN Throw(st, CannotRead("identity"))
  ELSE IF ~CanRead(Get(r, "identity")) THEN Throw(st, CannotRead("toString"))
  ELSE IF ~CanRead(Get(r, "start")) THEN Throw(st, CannotRead("toString"))
  ELSE IF ~CanRead(Get(r, "end")) THEN Throw(st, CannotRead("toString"))
  ELSE
    [st EXCEPT !.relationships =
       <<[id |-> toString(Get(r, "identity")),
          source |-> toString(Get(r, "start")),
          target |-> toString(Get(r, "end")),
          type |-> OrElse(Get(r, "type"), StrV(<<"RELATES_TO">>)),
          properties |-> OrElse(Get(r, "properties"), EmptyObject)]>> \o @]

\* relationships.push({...}) (lines 122-128, 153-159); r is value or
\* segment.relationship
pushRelationship(st, r) ==
  IF ~CanRead(r) THEN Throw(st, CannotRead("identity"))
  ELSE IF ~CanRead(Get(r, "identity")) THEN Throw(st, CannotRead("toString"))
  ELSE IF ~CanRead(Get(r, "start")) THEN Throw(st, CannotRead("toString"))
  ELSE IF ~CanRead(Get(r, "end")) THEN Throw(st, CannotRead("toString"))
  ELSE
    [st EXCEPT !.relationships = Append(@,
       [id |-> toString(Get(r, "identity")),
        source |-> toString(Get(r, "start")),
        target |-> toString(Get(r, "end")),
        type |-> OrElse(Get(r, "type"), StrV(<<"RELATES_TO">>)),
        properties |-> OrElse(Get(r, "properties"), EmptyObject)])]

\* a callback that drops the relationship of a segment whose end node was
\* already present
processSegment_skipSeenEnd(st, segment) ==
  IF ~CanRead(segment) THEN Throw(st, CannotRead("start"))
  ELSE LET s1 == setNode(st, Get(segment, "start")) IN
  IF HasThrown(s1) THEN s1
  ELSE LET s2 == setNode(s1, Get(segment, "end")) IN
  IF HasThrown(s2) THEN s2
  ELSE IF Len(s2.nodes) = Len(s1.nodes) THEN s2
  ELSE pushRelationship(s2, Get(segment, "relationship"))

\* the callback of value.segments.forEach (lines 131-160)
processSegment(st, segment) ==
  IF ~CanRead(segment) THEN Throw(st, CannotRead("start"))
  ELSE LET s1 == setNode(st, Get(segment, "start")) IN
  IF HasThrown(s1) THEN s1
  ELSE LET s2 == setNode(s1, Get(segment, "end")) IN
  IF HasThrown(s2) THEN s2
  ELSE pushRelationship(s2, Get(segment, "relationship"))

RECURSIVE forEachSegment(_, _)
forEachSegment(st, segs) ==
  IF HasThrown(st) \/ Len(segs) = 0 THEN st
  ELSE forEachSegment(processSegment(st, Head(segs)), Tail(segs))

\* a callback whose scalar branch starts a new row object for every field
processField_lastFieldOnly(st, key, value) ==
  IF isNode(value) THEN setNode(st, value)
  ELSE IF isRelationship(value)
  THEN pushRelationship([st EXCEPT !.hasGraphData = TRUE], value)
  ELSE IF isPath(value)
  THEN LET segments == Get(value, "segments") IN
       IF ~CanRead(segments) THEN Throw(st, CannotRead("forEach"))
       ELSE IF segments.t # "array" THEN Throw(st, NotAFunction("forEach"))
       ELSE forEachSegment(st, segments.e)
  ELSE [st EXCEPT !.recordData = (key :> formatScalarValue(value))]

\* the callback of record.keys.forEach (lines 108-164)
processField(st, key, value) ==
  IF isNode(value) THEN setNode(st, value)
  ELSE IF isRelationship(value)
  THEN pushRelationship([st EXCEPT !.hasGraphData = TRUE], value)
  ELSE IF isPath(value)
  THEN LET segments == Get(value, "segments") IN
       IF ~CanRead(segments) THEN Throw(st, CannotRead("forEach"))
       ELSE IF segments.t # "array" THEN Throw(st, NotAFunction("forEach"))
       ELSE forEachSegment(st, segments.e)
  ELSE [st EXCEPT !.recordData = (key :> formatScalarValue(value)) @@ @]

\* the start of one iteration of the for loop (lines 104-105)
beginRecord(st) == [st EXCEPT !.recordData = NoMembers, !.hasGraphData = FALSE]

\* the end of one iteration of the for loop (lines 166-168)
endRecord(st) ==
  IF ~st.hasGraphData \/ Cardinality(DOMAIN st.recordData) > 0
  THEN [st EXCEPT !.scalarData = Append(@, Obj("Object", st.recordData))]
  ELSE st

RECURSIVE forEachKey(_, _)
\* a record is the sequence of its fields [key, value], in record.keys order
forEachKey(st, fields) ==
  IF HasThrown(st) \/ Len(fields) = 0 THEN st
  ELSE forEachKey(processField(st, Head(fields).key, Head(fields).value), Tail(fields))

processRecord(st, record) ==
  LET s1 == forEachKey(beginRecord(st), record) IN
  IF HasThrown(s1) THEN s1 ELSE endRecord(s1)

RECURSIVE forEachRecord(_, _)
forEachRecord(st, records) ==
  IF HasThrown(st) \/ Len(records) = 0 THEN st
  ELSE forEachRecord(processRecord(st, Head(records)), Tail(records))

\* a return statement that hands out the rows array even when it is empty
graphDataOf_emptyList(st) ==
  [nodes |-> st.nodes,
   relationships |-> st.relationships,
   scalarData |-> Arr(st.scalarData)]

\* the value returned by processResults (lines 171-175)
graphDataOf(st) ==
  [nodes |-> st.nodes,
   relationships |-> st.relationships,
   scalarData |-> IF Len(st.scalarData) > 0 THEN Arr(st.scalarData) ELSE Undefined]

\* processResults(records): [thrown, value]
processResults(records) ==
  LET st == forEachRecord(NewLocals, records) IN
  IF HasThrown(st) THEN [thrown |-> st.thrown, value |-> Undefined]
  ELSE [thrown |-> Undefined, value |-> graphDataOf(st)]

(***************************************************************************)
(* Field values returned by the driver, and malformed ones                 *)
(***************************************************************************)
NodeValue(identity, labels, properties) ==
  Obj("Node", [identity |-> identity, labels |-> Arr(labels), properties |-> properties])
RelationshipValue(identity, start, end, type, properties) ==
  Obj("Relationship", [identity |-> identity, start |-> start, end |-> end,
                       type |-> StrV(type), properties |-> properties])
PathSegment(start, relationship, end) ==
  Obj("PathSegment", [start |-> start, relationship |-> relationship, end |-> end])
PathValue(start, end, segments) ==
  Obj("Path", [start |-> start, end |-> end, segments |-> Arr(segments),
               length |-> Num(Len(segments))])

Id1 == Integer(0, 1)
\* same low half as Id1, different high half
Id2 == Integer(1, 1)
Ann == Obj("Object", [name |-> StrV(<<"Ann">>)])
\* node 1 as (:Person {name: 'Ann'})
N1a == NodeValue(Id1, <<StrV(<<"Person">>)>>, Ann)
\* node 1 again, without labels and with null properties
N1b == NodeValue(Id1, <<>>, Null)
\* node 2 as (:A:B)
N2 == NodeValue(Id2, <<StrV(<<"A">>), StrV(<<"B">>)>>, EmptyObject)
R9 == RelationshipValue(Integer(0, 9), Id1, Id2, <<"KNOWS">>, EmptyObject)
\* a relationship with an empty type
R8 == RelationshipValue(Integer(0, 8), Id2, Id1, <<>>, Null)
\* (1)-[9]->(2)-[8]->(1)
P2 == PathValue(N1b, N1a, <<PathSegment(N1b, R9, N2), PathSegment(N2, R8, N1a)>>)
\* a boxed integer
Big5 == Integer(1, 5)
\* an object with a segments member whose segment has no start node
BadPath == Obj("Object", [segments |-> Arr(<<Obj("Object", [end |-> N2, relationship |-> R9])>>)])

FieldValues == {N1a, N1b, R9, P2, Big5, BadPath}

KeyNames == <<"a", "b", "c", "d", "e", "f", "g", "h">>

RECURSIVE buildRecords(_, _, _, _)
\* the record list with field values vals, a new record starting after each
\* position in cuts; the fields of a record are keyed a, b, c, ... in order
buildRecords(vals, cuts, i, cur) ==
  IF i > Len(vals) THEN (IF Len(cur) = 0 THEN <<>> ELSE <<cur>>)
  ELSE LET cur2 == Append(cur, [key |-> KeyNames[Len(cur) + 1], value |-> vals[i]]) IN
       IF i \in cuts THEN <<cur2>> \o buildRecords(vals, cuts, i + 1, <<>>)
       ELSE buildRecords(vals, cuts, i + 1, cur2)

(***************************************************************************)
(* Errors                                                                  *)
(***************************************************************************)
ErrorClasses == {"Error", "TypeError", "Neo4jError", "ConnectionError", "QueryError"}
\* error instanceof Error
isError(error) == error.t = "object" /\ error.proto \in ErrorClasses

\* new ConnectionError(message, originalError)  (part_001 66-71)
ConnectionError(message, originalError) ==
  Obj("ConnectionError", [message |-> StrV(message), name |-> StrV(<<"ConnectionError">>),
                          originalError |-> originalError])
\* new QueryError(message, originalError)  (QueryProcessor.ts 10-15)
QueryError(message, originalError) ==
  Obj("QueryError", [message |-> StrV(message), name |-> StrV(<<"QueryError">>),
                     originalError |-> originalError])

\* an error response of the database
Neo4jError(code, message) ==
  Obj("Neo4jError", [code |-> StrV(code), message |-> StrV(message)])

SyntaxFailure ==
  Neo4jError(<<"Neo.ClientError.Statement.", "SyntaxError">>, <<"Invalid input 'X'">>)
AuthFailure ==
  Neo4jError(<<"Neo.ClientError.Security.", "Unauthorized">>, <<"token expired">>)
OtherFailure ==
  Neo4jError(<<"Neo.ClientError.Statement.", "EntityNotFound">>, <<"Node 7 not found">>)
\* an error response without a code
NoCodeFailure == Obj("Neo4jError", [message |-> StrV(<<"Pool is closed">>)])
\* a native fault
NativeFault == Obj("Error", [message |-> StrV(<<"socket hang up">>)])
\* a thrown value that is no object
ThrownString == StrV(<<"boom">>)
CloseFailure == Obj("Error", [message |-> StrV(<<"close failed">>)])

RunErrors == {SyntaxFailure, AuthFailure, OtherFailure, NoCodeFailure, NativeFault, ThrownString}
CloseErrors == {CloseFailure}

NotConnectedMessage == <<"Not connected to database. Call connect() first.">>
GenericMessage == <<"Query execution failed. Check console for details.">>
SyntaxPrefix == <<"Syntax error in query: ">>
LostMessage == <<"Database connection lost. Please check settings.">>
Neo4jPrefix == <<"Neo4j error: ">>

\* isNeo4jError (QueryProcessor.ts 208-210)
isNeo4jError(error) ==
  Truthy(error) /\ IsObject(error) /\ In("message", error)
    /\ Get(error, "message").t = "string"

\* error.code?.includes(text)
codeIncludes(error, text) ==
  LET code == Get(error, "code") IN
  IF ~CanRead(code) THEN [thrown |-> Undefined, value |-> FALSE]
  ELSE IF code.t # "string" THEN [thrown |-> TypeError(NotAFunction("includes")), value |-> FALSE]
  ELSE [thrown |-> Undefined, value |-> includes(code.v, text)]

\* the catch block of execute (QueryProcessor.ts 61-86): the error it throws
catchBlock(error) ==
  IF isNeo4jError(error)
  THEN LET syn == codeIncludes(error, <<"SyntaxError">>)
           una == codeIncludes(error, <<"Unauthorized">>) IN
       IF syn.thrown # Undefined THEN syn.thrown
       ELSE IF syn.value THEN QueryError(SyntaxPrefix \o Get(error, "message").v, Undefined)
       ELSE IF una.value THEN QueryError(LostMessage, Undefined)
       ELSE QueryError(Neo4jPrefix \o Get(error, "message").v, Undefined)
  ELSE IF error.t = "object" /\ error.proto = "ConnectionError" THEN error
  ELSE IF isError(error) THEN QueryError(GenericMessage, error)
  ELSE QueryError(GenericMessage, Undefined)

Execs == 1..NumExecs
\* connect has one caller in Spec (connectToDatabase); SpecConnect has
\* several, whose calls overlap
Conns == {1}

Configs == {[url |-> <<"bolt://localhost:7687">>]}
Queries == {<<"MATCH (n) RETURN n">>}

Pending == [state |-> "pending"]
Fulfilled(value) == [state |-> "fulfilled", value |-> value]
Rejected(reason) == [state |-> "rejected", reason |-> reason]

(***************************************************************************)
(* processResults, one callback at a time                                  *)
(***************************************************************************)
InitPR ==
  /\ \E n \in 0..MaxFields : \E vals \in [1..n -> FieldValues] :
       \E cuts \in SUBSET (1..(n - 1)) :
         prRecords = buildRecords(vals, cuts, 1, <<>>)
  /\ prRi = 1
  /\ prFi = 0
  /\ prSt = NewLocals
  /\ prStatus = "running"
  /\ prResult = Undefined

\* one call of the forEach callback on the next field of the current record
PRField ==
  /\ prStatus = "running"
  /\ prRi <= Len(prRecords)
  /\ prFi < Len(prRecords[prRi])
  /\ LET field == prRecords[prRi][prFi + 1]
         st0 == IF prFi = 0 THEN beginRecord(prSt) ELSE prSt
         st1 == processField(st0, field.key, field.value) IN
       /\ prSt' = st1
       /\ prFi' = prFi + 1
       /\ prStatus' = IF HasThrown(st1) THEN "thrown" ELSE "running"
  /\ UNCHANGED <<prRecords, prRi, prResult, connVars, execVars, testVars, uiVars>>

\* the end of the loop body for the current record
PREndRecord ==
  /\ prStatus = "running"
  /\ prRi <= Len(prRecords)
  /\ prFi = Len(prRecords[prRi])
  /\ prSt' = endRecord(prSt)
  /\ prRi' = prRi + 1
  /\ prFi' = 0
  /\ UNCHANGED <<prRecords, prStatus, prResult, connVars, execVars, testVars, uiVars>>

\* the return statement
PRReturn ==
  /\ prStatus = "running"
  /\ prRi > Len(prRecords)
  /\ prResult' = graphDataOf(prSt)
  /\ prStatus' = "returned"
  /\ UNCHANGED <<prRecords, prRi, prFi, prSt, connVars, execVars, testVars, uiVars>>

(***************************************************************************)
(* Neo4jConnection (part_001 76-191)                                       *)
(***************************************************************************)
ServiceUnavailable == Obj("Neo4jError", [code |-> StrV(<<"ServiceUnavailable">>),
                                         message |-> StrV(<<"connect ECONNREFUSED">>)])
Unauthorized == Obj("Neo4jError", [code |-> StrV(<<"Neo.ClientError.Security.", "Unauthorized">>),
                                   message |-> StrV(<<"bad credentials">>)])
VerifyErrors == {ServiceUnavailable, Unauthorized, NativeFault, ThrownString}

\* hasErrorCode (part_001 59-61)
hasErrorCode(error) ==
  isError(error) /\ In("code", error) /\ Get(error, "code").t = "string"

\* a catch block that passes on an error without a known code as it is
connectError_rethrow(error) ==
  IF hasErrorCode(error) /\ Get(error, "code").v = <<"ServiceUnavailable">>
  THEN ConnectionError(<<"Cannot reach database server. Check URL and ensure Neo4j is running.">>, error)
  ELSE IF hasErrorCode(error) /\ Get(error, "code").v = <<"Neo.ClientError.Security.", "Unauthorized">>
  THEN ConnectionError(<<"Invalid username or password.">>, error)
  ELSE error

\* the error thrown by the catch block of connect (part_001 146-155)
connectError(error) ==
  IF hasErrorCode(error) /\ Get(error, "code").v = <<"ServiceUnavailable">>
  THEN ConnectionError(<<"Cannot reach database server. Check URL and ensure Neo4j is running.">>, error)
  ELSE IF hasErrorCode(error) /\ Get(error, "code").v = <<"Neo.ClientError.Security.", "Unauthorized">>
  THEN ConnectionError(<<"Invalid username or password.">>, error)
  ELSE ConnectionError(<<"Failed to establish connection. Check console for details.">>,
                       IF isError(error) THEN error ELSE Undefined)

\* testConnection has one caller at a time (the settings tab)
Tests == {1}
InitTest ==
  test = [t \in Tests |-> [pc |-> "idle", error |-> Undefined, created |-> 0,
                           closeCalls |-> 0, outcome |-> Pending]]

\* the button of a code block as created (main.ts 91-94, part_003 46-49)
ButtonText == <<"Execute Query">>
InitUI ==
  /\ button = [text |-> ButtonText, disabled |-> FALSE]
  /\ ui = [pc |-> "idle", originalText |-> <<>>, caught |-> Undefined,
           shown |-> <<>>]

InitConn ==
  /\ InitTest
  /\ InitUI
  /\ driver = 0
  /\ config = Null
  /\ isConnected = FALSE
  /\ drivers = <<>>
  /\ conn = [c \in Conns |-> [pc |-> "idle", config |-> Null, error |-> Undefined,
                              outcome |-> Pending]]

\* connect(cfg) up to its first await (part_001 118-138)
connect(c, cfg) ==
  /\ conn[c].pc = "idle"
  /\ IF isConnected /\ driver # 0
     THEN /\ conn' = [conn EXCEPT ![c].pc = "done", ![c].config = cfg,
                                  ![c].outcome = Fulfilled(Undefined)]
          /\ UNCHANGED <<driver, drivers>>
     ELSE /\ drivers' = Append(drivers, [closeCalls |-> 0])
          /\ driver' = Len(drivers) + 1
          /\ conn' = [conn EXCEPT ![c].pc = "verifying", ![c].config = cfg]
  /\ UNCHANGED <<config, isConnected, execVars, prVars, testVars>>

\* connect called by a caller other than the execute button
Connect(c, cfg) == connect(c, cfg) /\ UNCHANGED uiVars

\* verifyConnectivity resolved (part_001 140-142)
ConnectVerified(c) ==
  /\ conn[c].pc = "verifying"
  /\ config' = conn[c].config
  /\ isConnected' = TRUE
  /\ conn' = [conn EXCEPT ![c].pc = "done", ![c].outcome = Fulfilled(Undefined)]
  /\ UNCHANGED <<driver, drivers, execVars, prVars, testVars, uiVars>>

\* verifyConnectivity rejected: the catch block calls disconnect, which calls
\* driver.close() when there is a driver (part_001 143-144, 160-164)
ConnectFailed(c, error) ==
  /\ conn[c].pc = "verifying"
  /\ IF driver # 0
     THEN /\ drivers' = [drivers EXCEPT ![driver].closeCalls = @ + 1]
          /\ conn' = [conn EXCEPT ![c].pc = "closing", ![c].error = error]
          /\ UNCHANGED <<driver, config, isConnected>>
     ELSE /\ driver' = 0
          /\ config' = Null
          /\ isConnected' = FALSE
          /\ conn' = [conn EXCEPT ![c].pc = "disconnected", ![c].error = error]
          /\ UNCHANGED drivers
  /\ UNCHANGED <<execVars, prVars, testVars, uiVars>>

\* a disconnect that resets config and isConnected but keeps the driver field
DisconnectClosed_keepsDriver(c) ==
  /\ conn[c].pc = "closing"
  /\ config' = Null
  /\ isConnected' = FALSE
  /\ conn' = [conn EXCEPT ![c].pc = "disconnected"]
  /\ UNCHANGED <<driver, drivers, execVars, prVars, testVars, uiVars>>

\* driver.close() settled, either way (part_001 164-172)
DisconnectClosed(c) ==
  /\ conn[c].pc = "closing"
  /\ driver' = 0
  /\ config' = Null
  /\ isConnected' = FALSE
  /\ conn' = [conn EXCEPT ![c].pc = "disconnected"]
  /\ UNCHANGED <<drivers, execVars, prVars, testVars, uiVars>>

\* the rest of the catch block of connect (part_001 146-155)
ConnectThrow(c) ==
  /\ conn[c].pc = "disconnected"
  /\ conn' = [conn EXCEPT ![c].pc = "done",
                          ![c].outcome = Rejected(connectError(conn[c].error))]
  /\ UNCHANGED <<driver, config, isConnected, drivers, execVars, prVars, testVars, uiVars>>

\* the error thrown by the catch block of testConnection (part_001 101-113)
testError(error) ==
  IF hasErrorCode(error) /\ Get(error, "code").v = <<"ServiceUnavailable">>
  THEN ConnectionError(<<"Cannot reach database server. Check URL and ensure Neo4j is running.">>, error)
  ELSE IF hasErrorCode(error) /\ Get(error, "code").v = <<"Neo.ClientError.Security.", "Unauthorized">>
  THEN ConnectionError(<<"Invalid username or password.">>, error)
  ELSE ConnectionError(<<"Connection test failed. Check console for details.">>,
                       IF isError(error) THEN error ELSE Undefined)

\* the boolean true
True == [t |-> "boolean", v |-> TRUE]

\* testConnection(cfg) up to its first await (part_001 82-96): the temporary
\* driver is created and verifyConnectivity is called on it
TestConnection(t) ==
  /\ test[t].pc = "idle"
  /\ test' = [test EXCEPT ![t].pc = "verifying", ![t].created = @ + 1]
  /\ UNCHANGED <<connVars, execVars, prVars, uiVars>>

\* verifyConnectivity resolved: testDriver.close() is called (part_001 96-97)
TestVerified(t) ==
  /\ test[t].pc = "verifying"
  /\ test' = [test EXCEPT ![t].pc = "closing", ![t].closeCalls = @ + 1]
  /\ UNCHANGED <<connVars, execVars, prVars, uiVars>>

\* verifyConnectivity rejected: the catch block throws (part_001 96, 101-113)
TestVerifyFailed(t, error) ==
  /\ test[t].pc = "verifying"
  /\ test' = [test EXCEPT ![t].pc = "done", ![t].error = error,
                          ![t].outcome = Rejected(testError(error))]
  /\ UNCHANGED <<connVars, execVars, prVars, uiVars>>

\* testDriver.close() resolved: return true (part_001 97-100)
TestClosed(t) ==
  /\ test[t].pc = "closing"
  /\ test' = [test EXCEPT ![t].pc = "done", ![t].outcome = Fulfilled(True)]
  /\ UNCHANGED <<connVars, execVars, prVars, uiVars>>

\* testDriver.close() rejected: the catch block throws (part_001 97, 101-113)
TestCloseFailed(t, error) ==
  /\ test[t].pc = "closing"
  /\ test' = [test EXCEPT ![t].pc = "done", ![t].error = error,
                          ![t].outcome = Rejected(testError(error))]
  /\ UNCHANGED <<connVars, execVars, prVars, uiVars>>

\* getSession (part_001 184-190): the error it throws, or Undefined
getSessionThrows ==
  IF driver = 0 \/ ~isConnected THEN ConnectionError(NotConnectedMessage, Undefined)
  ELSE Undefined

(***************************************************************************)
(* QueryProcessor.execute (QueryProcessor.ts 26-93)                        *)
(***************************************************************************)
Field(key, value) == [key |-> key, value |-> value]
\* what session.run may resolve with
ResultSets ==
  { <<>>,
    << <<Field("n", N1a)>> >>,
    << <<Field("a", N1a), Field("r", R9), Field("c", Big5)>> >>,
    << <<Field("p", BadPath)>> >> }

InitExec ==
  /\ sessions = <<>>
  /\ now = 0
  /\ exec = [e \in Execs |->
       [pc |-> "idle", query |-> <<>>, startTime |-> 0, session |-> 0, run |-> Pending,
        caught |-> Undefined, pending |-> Pending, closed |-> Pending,
        closeCalls |-> 0, outcome |-> Pending]]

\* if (session) in the finally block (line 89)
closesSession(session) == session # 0

\* a finally block that releases the session on the success path only
finallyBlock_successOnly(ex, completion) ==
  IF ex.session # 0 /\ completion.state = "fulfilled"
  THEN [ex EXCEPT !.pending = completion, !.pc = "closing", !.closeCalls = @ + 1]
  ELSE [ex EXCEPT !.pending = completion, !.pc = "done", !.outcome = completion]

\* a finally block that calls session.close() without awaiting it
finallyBlock_noAwait(ex, completion) ==
  IF closesSession(ex.session)
  THEN [ex EXCEPT !.pending = completion, !.pc = "done", !.closeCalls = @ + 1,
                  !.outcome = completion]
  ELSE [ex EXCEPT !.pending = completion, !.pc = "done", !.outcome = completion]

\* the finally block entered with the completion of try/catch (lines 87-92):
\* the caller's record afterwards
finallyBlock(ex, completion) ==
  IF closesSession(ex.session)
  THEN [ex EXCEPT !.pending = completion, !.pc = "closing", !.closeCalls = @ + 1]
  ELSE [ex EXCEPT !.pending = completion, !.pc = "done", !.outcome = completion]

\* a finally block that closes the session acquired last by any call, as if
\* the session were kept in a field of the processor
finallySessions_lastAcquired(ex) ==
  IF closesSession(ex.session)
  THEN [sessions EXCEPT ![Len(sessions)].closeCalls = @ + 1]
  ELSE sessions

\* the sessions after the finally block of ex was entered
finallySessions(ex) ==
  IF closesSession(ex.session)
  THEN [sessions EXCEPT ![ex.session].closeCalls = @ + 1]
  ELSE sessions

\* a summary whose two counts are taken from the wrong lists
resultOf_countsSwapped(query, records, graphData, executionTime) ==
  [data |-> graphData,
   records |-> records,
   summary |-> [query |-> query,
                executionTime |-> executionTime,
                nodeCount |-> Len(graphData.relationships),
                relationshipCount |-> Len(graphData.nodes)]]

\* the value returned by the try block (lines 50-59)
resultOf(query, records, graphData, executionTime) ==
  [data |-> graphData,
   records |-> records,
   summary |-> [query |-> query,
                executionTime |-> executionTime,
                nodeCount |-> Len(graphData.nodes),
                relationshipCount |-> Len(graphData.relationships)]]

\* execute(query) up to its first await (lines 26-37), or to its end when
\* getSession throws; startTime is read first (line 30)
execute(e, query) ==
  /\ exec[e].pc = "idle"
  /\ LET error == getSessionThrows IN
     IF error # Undefined
     THEN LET ex == [exec[e] EXCEPT !.query = query, !.startTime = now, !.caught = error] IN
          /\ exec' = [exec EXCEPT ![e] = finallyBlock(ex, Rejected(catchBlock(error)))]
          /\ sessions' = finallySessions(ex)
     ELSE /\ sessions' = Append(sessions,
               [driver |-> driver, owner |-> e, runs |-> <<query>>, closeCalls |-> 0])
          /\ exec' = [exec EXCEPT ![e].query = query, ![e].startTime = now,
                                  ![e].pc = "running", ![e].session = Len(sessions) + 1]
  /\ UNCHANGED <<now, connVars, prVars, testVars>>

\* execute called by a caller other than the execute button
Execute(e, query) == execute(e, query) /\ UNCHANGED uiVars

\* a try block that takes executionTime after processResults has returned
RunResolved_timedAfterProcessing(e, records, elapsed) ==
  /\ exec[e].pc = "running"
  /\ LET executionTime == (now + elapsed) - exec[e].startTime
         r == processResults(records)
         ex == [exec[e] EXCEPT !.run = Fulfilled(records), !.caught = r.thrown]
         completion == IF r.thrown # Undefined THEN Rejected(catchBlock(r.thrown))
                       ELSE Fulfilled(resultOf(ex.query, records, r.value, executionTime)) IN
       /\ exec' = [exec EXCEPT ![e] = finallyBlock(ex, completion)]
       /\ sessions' = finallySessions(ex)
  /\ now' = now + elapsed
  /\ UNCHANGED <<connVars, prVars, testVars, uiVars>>

\* session.run resolved (lines 37-59, and 61-92 when processResults throws):
\* executionTime is taken (line 38), then processResults runs for elapsed
\* units of time (line 41)
RunResolved(e, records, elapsed) ==
  /\ exec[e].pc = "running"
  /\ LET executionTime == now - exec[e].startTime
         r == processResults(records)
         ex == [exec[e] EXCEPT !.run = Fulfilled(records), !.caught = r.thrown]
         completion == IF r.thrown # Undefined THEN Rejected(catchBlock(r.thrown))
                       ELSE Fulfilled(resultOf(ex.query, records, r.value, executionTime)) IN
       /\ exec' = [exec EXCEPT ![e] = finallyBlock(ex, completion)]
       /\ sessions' = finallySessions(ex)
  /\ now' = now + elapsed
  /\ UNCHANGED <<connVars, prVars, testVars, uiVars>>

\* session.run rejected (lines 61-92)
RunRejected(e, error) ==
  /\ exec[e].pc = "running"
  /\ LET ex == [exec[e] EXCEPT !.run = Rejected(error), !.caught = error] IN
       /\ exec' = [exec EXCEPT ![e] = finallyBlock(ex, Rejected(catchBlock(error)))]
       /\ sessions' = finallySessions(ex)
  /\ UNCHANGED <<now, connVars, prVars, testVars, uiVars>>

\* session.close() resolved: execute completes as try/catch did
CloseResolved(e) ==
  /\ exec[e].pc = "closing"
  /\ exec' = [exec EXCEPT ![e].pc = "done", ![e].closed = Fulfilled(Undefined),
                          ![e].outcome = exec[e].pending]
  /\ UNCHANGED <<sessions, now, connVars, prVars, testVars, uiVars>>

\* session.close() rejected: the finally block throws (line 90)
CloseRejected(e, error) ==
  /\ exec[e].pc = "closing"
  /\ exec' = [exec EXCEPT ![e].pc = "done", ![e].closed = Rejected(error),
                          ![e].outcome = Rejected(error)]
  /\ UNCHANGED <<sessions, now, connVars, prVars, testVars, uiVars>>

(***************************************************************************)
(* Specifications                                                          *)
(***************************************************************************)
Init ==
  /\ InitConn
  /\ InitExec
  /\ prRecords = <<>>
  /\ prRi = 1
  /\ prFi = 0
  /\ prSt = NewLocals
  /\ prStatus = "idle"
  /\ prResult = Undefined

Next ==
  \/ \E c \in Conns, cfg \in Configs : Connect(c, cfg)
  \/ \E c \in Conns : ConnectVerified(c)
  \/ \E c \in Conns, error \in VerifyErrors : ConnectFailed(c, error)
  \/ \E c \in Conns : DisconnectClosed(c)
  \/ \E c \in Conns : ConnectThrow(c)
  \/ \E e \in Execs, query \in Queries : Execute(e, query)
  \/ \E e \in Execs, records \in ResultSets : RunResolved(e, records, 0)
  \/ \E e \in Execs, error \in RunErrors : RunRejected(e, error)
  \/ \E e \in Execs : CloseResolved(e)
  \/ \E e \in Execs, error \in CloseErrors : CloseRejected(e, error)

Spec == Init /\ [][Next]_vars

\* processResults applied to every bounded record list
InitProcess == InitPR /\ InitConn /\ InitExec
NextProcess == PRField \/ PREndRecord \/ PRReturn
SpecProcess == InitProcess /\ [][NextProcess]_vars

(***************************************************************************)
(* One call of execute under a clock that advances while the call awaits   *)
(* and while processResults runs                                           *)
(***************************************************************************)
MaxTime == 2
TimedExecs == {1}

\* time passes while calls are suspended
Tick ==
  /\ now < MaxTime
  /\ now' = now + 1
  /\ UNCHANGED <<sessions, exec, connVars, prVars, testVars, uiVars>>

NextTimer ==
  \/ Tick
  \/ \E c \in Conns, cfg \in Configs : Connect(c, cfg)
  \/ \E c \in Conns : ConnectVerified(c)
  \/ \E e \in TimedExecs, query \in Queries : Execute(e, query)
  \/ \E e \in TimedExecs, records \in ResultSets, elapsed \in 0..MaxTime :
       RunResolved(e, records, elapsed)
  \/ \E e \in TimedExecs, error \in RunErrors : RunRejected(e, error)
  \/ \E e \in TimedExecs : CloseResolved(e)
  \/ \E e \in TimedExecs, error \in CloseErrors : CloseRejected(e, error)

SpecTimer == Init /\ [][NextTimer]_vars

(***************************************************************************)
(* connect and testConnection, one caller each                             *)
(***************************************************************************)
NextTest ==
  \/ \E c \in Conns, cfg \in Configs : Connect(c, cfg)
  \/ \E c \in Conns : ConnectVerified(c)
  \/ \E c \in Conns, error \in VerifyErrors : ConnectFailed(c, error)
  \/ \E c \in Conns : DisconnectClosed(c)
  \/ \E c \in Conns : ConnectThrow(c)
  \/ \E t \in Tests : TestConnection(t)
  \/ \E t \in Tests : TestVerified(t)
  \/ \E t \in Tests, error \in VerifyErrors : TestVerifyFailed(t, error)
  \/ \E t \in Tests : TestClosed(t)
  \/ \E t \in Tests, error \in CloseErrors : TestCloseFailed(t, error)

SpecTest == Init /\ [][NextTest]_vars

(***************************************************************************)
(* executeQuery of a code block (main.ts 124-177; part_003 79-140 has the   *)
(* same structure)                                                         *)
(***************************************************************************)
ExecutingText == <<"Executing...">>
\* the caller slots executeQuery uses for connect and for execute
UIConn == 1
UIExec == 1

Div(cls, text) == [cls |-> cls, text |-> text]
\* the div the catch block adds to resultsArea (main.ts 150-170)
errorDiv(error) ==
  IF error.t = "object" /\ error.proto = "ConnectionError"
  THEN Div(<<"neo4j-connection-error">>,
           <<"Connection error: ">> \o error.f.message.v \o <<". Please check your settings.">>)
  ELSE IF error.t = "object" /\ error.proto = "QueryError"
  THEN Div(<<"neo4j-error-message">>, <<"Query error: ">> \o error.f.message.v)
  ELSE Div(<<"neo4j-error-message">>, <<"Query execution failed. Check console for details">>)

\* the finally block (main.ts 171-176): the button afterwards
restoreButton(originalText) == [text |-> originalText, disabled |-> FALSE]

\* a click on the enabled button: executeQuery up to its first await
\* (main.ts 106-107, 128-146)
Click(cfg, query) ==
  /\ ui.pc = "idle"
  /\ ~button.disabled
  /\ button' = [text |-> ExecutingText, disabled |-> TRUE]
  /\ IF ~isConnected
     THEN /\ connect(UIConn, cfg)
          /\ ui' = [ui EXCEPT !.pc = "connecting", !.originalText = button.text,
                              !.shown = <<Div(<<"neo4j-loading">>, <<"Connecting to database...">>)>>]
     ELSE /\ execute(UIExec, query)
          /\ ui' = [ui EXCEPT !.pc = "executing", !.originalText = button.text,
                              !.shown = <<>>]

\* connectToDatabase settled: execute is called, or the catch block and the
\* finally block run (main.ts 144-176)
UIConnectSettled(query) ==
  /\ ui.pc = "connecting"
  /\ conn[UIConn].pc = "done"
  /\ IF conn[UIConn].outcome.state = "fulfilled"
     THEN /\ execute(UIExec, query)
          /\ ui' = [ui EXCEPT !.pc = "executing"]
          /\ UNCHANGED button
     ELSE /\ ui' = [ui EXCEPT !.pc = "done", !.caught = conn[UIConn].outcome.reason,
                              !.shown = Append(@, errorDiv(conn[UIConn].outcome.reason))]
          /\ button' = restoreButton(ui.originalText)
          /\ UNCHANGED <<connVars, execVars, prVars, testVars>>

\* a try block whose button is restored at its end instead of in a finally
UIExecuteSettled_restoreInTry(displayThrows) ==
  /\ ui.pc = "executing"
  /\ exec[UIExec].pc = "done"
  /\ LET outcome == exec[UIExec].outcome
         error == IF outcome.state = "rejected" THEN outcome.reason
                  ELSE IF displayThrows THEN TypeError(<<"Do not know how to serialize a BigInt">>)
                  ELSE Undefined IN
       /\ ui' = [ui EXCEPT !.pc = "done", !.caught = error,
                           !.shown = IF error = Undefined
                                     THEN Append(@, Div(<<"neo4j-results">>, <<>>))
                                     ELSE Append(@, errorDiv(error))]
       /\ button' = IF error = Undefined THEN restoreButton(ui.originalText) ELSE button
  /\ UNCHANGED <<connVars, execVars, prVars, testVars>>

\* execute settled: the results are displayed, which may throw, or the catch
\* block runs; then the finally block (main.ts 147-176)
UIExecuteSettled(displayThrows) ==
  /\ ui.pc = "executing"
  /\ exec[UIExec].pc = "done"
  /\ LET outcome == exec[UIExec].outcome
         error == IF outcome.state = "rejected" THEN outcome.reason
                  ELSE IF displayThrows THEN TypeError(<<"Do not know how to serialize a BigInt">>)
                  ELSE Undefined IN
       /\ ui' = [ui EXCEPT !.pc = "done", !.caught = error,
                           !.shown = IF error = Undefined
                                     THEN Append(@, Div(<<"neo4j-results">>, <<>>))
                                     ELSE Append(@, errorDiv(error))]
       /\ button' = restoreButton(ui.originalText)
  /\ UNCHANGED <<connVars, execVars, prVars, testVars>>

\* the manager after an earlier connect succeeded
InitConnected ==
  /\ InitTest
  /\ InitUI
  /\ driver = 1
  /\ \E cfg \in Configs :
       /\ config = cfg
       /\ conn = [c \in Conns |-> [pc |-> "done", config |-> cfg, error |-> Undefined,
                                   outcome |-> Fulfilled(Undefined)]]
  /\ isConnected = TRUE
  /\ drivers = <<[closeCalls |-> 0]>>

InitButton ==
  /\ InitConn \/ InitConnected
  /\ InitExec
  /\ prRecords = <<>>
  /\ prRi = 1
  /\ prFi = 0
  /\ prSt = NewLocals
  /\ prStatus = "idle"
  /\ prResult = Undefined

NextButton ==
  \/ \E cfg \in Configs, query \in Queries : Click(cfg, query)
  \/ \E query \in Queries : UIConnectSettled(query)
  \/ \E displayThrows \in BOOLEAN : UIExecuteSettled(displayThrows)
  \/ ConnectVerified(UIConn)
  \/ \E error \in VerifyErrors : ConnectFailed(UIConn, error)
  \/ DisconnectClosed(UIConn)
  \/ ConnectThrow(UIConn)
  \/ \E records \in ResultSets : RunResolved(UIExec, records, 0)
  \/ \E error \in RunErrors : RunRejected(UIExec, error)
  \/ CloseResolved(UIExec)
  \/ \E error \in CloseErrors : CloseRejected(UIExec, error)

SpecButton == InitButton /\ [][NextButton]_vars

(***************************************************************************)
(* Overlapping calls of connect, with getSession called in between         *)
(* (connectToDatabase is awaited by every code block and every command     *)
(* that finds the status not connected: main.ts 135-147, part_003 93-106)  *)
(***************************************************************************)
NumConns == 3
\* a configuration that differs from the one in the settings
OtherConfigs == {[url |-> <<"bolt://example.org:7687">>]}
ConnCallers == 1..NumConns

InitConnect ==
  /\ InitTest
  /\ InitUI
  /\ driver = 0
  /\ config = Null
  /\ isConnected = FALSE
  /\ drivers = <<>>
  /\ conn = [c \in ConnCallers |-> [pc |-> "idle", config |-> Null, error |-> Undefined,
                                    outcome |-> Pending]]
  /\ InitExec
  /\ prRecords = <<>>
  /\ prRi = 1
  /\ prFi = 0
  /\ prSt = NewLocals
  /\ prStatus = "idle"
  /\ prResult = Undefined

NextConnect ==
  \/ \E c \in ConnCallers, cfg \in Configs \cup OtherConfigs : Connect(c, cfg)
  \/ \E c \in ConnCallers : ConnectVerified(c)
  \/ \E c \in ConnCallers, error \in VerifyErrors : ConnectFailed(c, error)
  \/ \E c \in ConnCallers : DisconnectClosed(c)
  \/ \E c \in ConnCallers : ConnectThrow(c)
  \/ \E e \in Execs, query \in Queries : Execute(e, query)

SpecConnect == InitConnect /\ [][NextConnect]_vars

(***************************************************************************)
(* Values for the type guards and for formatScalarValue                    *)
(***************************************************************************)
MaxDepth == 2

\* the members the type guards test, and identity
ShapeMembers == {"identity", "labels", "properties", "type", "start", "end", "segments"}
MemberValue(m) ==
  CASE m = "identity" -> Integer(0, 7)
    [] m = "labels" -> Arr(<<StrV(<<"Person">>)>>)
    [] m = "properties" -> Ann
    [] m = "type" -> StrV(<<"KNOWS">>)
    [] m = "start" -> Id1
    [] m = "end" -> Id2
    [] m = "segments" -> Arr(<<PathSegment(N1a, R9, N2)>>)
\* the plain object with exactly the members S
ShapeValue(S) == Obj("Object", [m \in S |-> MemberValue(m)])
ShapeValues == {ShapeValue(S) : S \in SUBSET ShapeMembers}

\* values that no type guard accepts
ScalarValues == {Integer(0, 5), Integer(0, 12), StrV(<<"x">>)}

\* the Cypher map {low: 1, high: 2}: both members, no toNumber method
LowHighMap == Obj("Object", [low |-> Integer(0, 1), high |-> Integer(0, 2)])
LowOnlyMap == Obj("Object", [low |-> Integer(0, 1)])
CoerceLeaves == {Big5, Null, Ann, LowHighMap, LowOnlyMap, StrV(<<"x">>)}

RECURSIVE CoerceValuesTo(_)
\* the leaves and the lists of at most two elements nested to depth d
CoerceValuesTo(d) ==
  IF d = 0 THEN CoerceLeaves
  ELSE LET inner == CoerceValuesTo(d - 1) IN
       inner \cup {Arr(<<>>)} \cup {Arr(<<x>>) : x \in inner}
             \cup {Arr(<<x, y>>) : x \in inner, y \in CoerceLeaves}
CoerceValues == CoerceValuesTo(MaxDepth)

\* processResults applied to record lists of scalar fields, and to one record
\* of one field for every shape and every nested list
InitValues ==
  /\ \/ \E n \in 1..MaxFields : \E vals \in [1..n -> ScalarValues] :
          \E cuts \in SUBSET (1..(n - 1)) :
            prRecords = buildRecords(vals, cuts, 1, <<>>)
     \/ \E x \in ShapeValues \cup CoerceValues : prRecords = << <<Field("v", x)>> >>
  /\ prRi = 1
  /\ prFi = 0
  /\ prSt = NewLocals
  /\ prStatus = "running"
  /\ prResult = Undefined
  /\ InitConn
  /\ InitExec
SpecValues == InitValues /\ [][NextProcess]_vars

(***************************************************************************)
(* Occurrences of graph entities in a record list, in encounter order:     *)
(* record order, field order within a record, segment order within a path  *)
(***************************************************************************)
RECURSIVE Flatten(_)
Flatten(ss) == IF Len(ss) = 0 THEN <<>> ELSE Head(ss) \o Flatten(Tail(ss))

SegmentsOf(v) == v.f.segments.e
\* the Node values a field value carries
NodesIn(v) ==
  IF v.t = "object" /\ v.proto = "Node" THEN <<v>>
  ELSE IF v.t = "object" /\ v.proto = "Path"
  THEN Flatten([i \in 1..Len(SegmentsOf(v)) |->
                 <<SegmentsOf(v)[i].f.start, SegmentsOf(v)[i].f.end>>])
  ELSE <<>>
\* the Relationship values a field value carries
RelationshipsIn(v) ==
  IF v.t = "object" /\ v.proto = "Relationship" THEN <<v>>
  ELSE IF v.t = "object" /\ v.proto = "Path"
  THEN [i \in 1..Len(SegmentsOf(v)) |-> SegmentsOf(v)[i].f.relationship]
  ELSE <<>>
NodesInRecord(rec) == Flatten([i \in 1..Len(rec) |-> NodesIn(rec[i].value)])
RelationshipsInRecord(rec) == Flatten([i \in 1..Len(rec) |-> RelationshipsIn(rec[i].value)])
NodeOccurrences(records) ==
  Flatten([i \in 1..Len(records) |-> NodesInRecord(records[i])])
RelationshipOccurrences(records) ==
  Flatten([i \in 1..Len(records) |-> RelationshipsInRecord(records[i])])

\* the decimal text of an identity
IdText(identity) == IntToString(identity.f.high.v * HalfRadix + identity.f.low.v)
\* the label and the properties a Node value is given
LabelOf(n) == IF Len(n.f.labels.e) = 0 THEN <<"Node">> ELSE join(n.f.labels.e, <<":">>)
PropertiesOf(n) == IF n.f.properties = Null THEN EmptyObject ELSE n.f.properties

Count(seq, P(_)) == Cardinality({i \in 1..Len(seq) : P(seq[i])})
\* the first index of seq whose element satisfies P
First(seq, P(_)) == CHOOSE i \in 1..Len(seq) : P(seq[i]) /\ \A j \in 1..(i - 1) : ~P(seq[j])

(***************************************************************************)
(* Claims on execute                                                       *)
(***************************************************************************)
Done(e) == exec[e].pc = "done"
GotSession(e) == exec[e].session # 0

\* C1: for every call of execute, session.close() is invoked exactly once
\* when getSession returned a session, whether session.run resolved, it
\* rejected or processing the records threw, and never when getSession
\* failed; the session of the call records that one invocation.
C1_CloseExactlyOnce ==
  \A e \in Execs :
    /\ exec[e].closeCalls <= 1
    /\ Done(e) => exec[e].closeCalls = (IF GotSession(e) THEN 1 ELSE 0)
    /\ Done(e) /\ GotSession(e) => sessions[exec[e].session].closeCalls = 1
    /\ exec[e].pc = "idle" => exec[e].closeCalls = 0

\* one call ended after processing the records threw, with one close, and
\* another call ended after getSession failed, with none
C1_Witness ==
  \E e1, e2 \in Execs :
    /\ Done(e1) /\ GotSession(e1) /\ exec[e1].run.state = "fulfilled"
    /\ exec[e1].caught # Undefined /\ exec[e1].closeCalls = 1
    /\ Done(e2) /\ ~GotSession(e2) /\ exec[e2].caught # Undefined
    /\ exec[e2].closeCalls = 0

\* C2: when getSession throws a ConnectionError, execute rejects with that
\* same ConnectionError, not re-wrapped into a QueryError.
C2_ConnectionErrorUnchanged ==
  \A e \in Execs :
    Done(e) /\ ~GotSession(e) /\ exec[e].caught # Undefined
      /\ exec[e].caught.proto = "ConnectionError"
    => exec[e].outcome = Rejected(exec[e].caught)

\* C3: a failure of session.close() never reaches the caller: execute
\* settles as try/catch completed, with the result after a successful run
\* and with the classified primary error after a failed one.
C3_CloseFailureSwallowed ==
  \A e \in Execs :
    Done(e) /\ exec[e].closed.state = "rejected" => exec[e].outcome = exec[e].pending

\* the message of the QueryError that an error response of the database is
\* given, by its code
MessageFor(error) ==
  IF error = SyntaxFailure THEN SyntaxPrefix \o error.f.message.v
  ELSE IF error = AuthFailure THEN LostMessage
  ELSE Neo4jPrefix \o error.f.message.v
DatabaseErrors == {SyntaxFailure, AuthFailure, OtherFailure, NoCodeFailure}
IsQueryErrorFor(reason, error) ==
  /\ reason.t = "object" /\ reason.proto = "QueryError"
  /\ reason.f.message.v = MessageFor(error)
  /\ error \in {OtherFailure, NoCodeFailure} => includes(reason.f.message.v, error.f.message.v)

\* C8: when session.run rejects with an error response of the database,
\* execute rejects with a QueryError whose message is chosen by the code:
\* the syntax message, the connection-lost message, or the generic database
\* message containing the original text.
C8_DatabaseErrorClassified ==
  \A e \in Execs :
    Done(e) /\ exec[e].run.state = "rejected" /\ exec[e].run.reason \in DatabaseErrors
    => /\ exec[e].outcome.state = "rejected"
       /\ IsQueryErrorFor(exec[e].outcome.reason, exec[e].run.reason)

\* the classification of C8 in the calls whose session.close() resolved
C8_WhenCloseResolved ==
  \A e \in Execs :
    Done(e) /\ exec[e].run.state = "rejected" /\ exec[e].run.reason \in DatabaseErrors
      /\ exec[e].closed.state = "fulfilled"
    => /\ exec[e].outcome.state = "rejected"
       /\ IsQueryErrorFor(exec[e].outcome.reason, exec[e].run.reason)

\* C9: every rejection of execute is a ConnectionError or a QueryError.
C9_OnlyClassifiedErrors ==
  \A e \in Execs :
    exec[e].outcome.state = "rejected"
    => /\ exec[e].outcome.reason.t = "object"
       /\ exec[e].outcome.reason.proto \in {"ConnectionError", "QueryError"}

\* C10: a native fault during Running that is no error response of the
\* database (an Error rejected by session.run, or thrown while a record is
\* processed) makes execute reject with a QueryError with the generic message
\* and the fault as originalError.  Stated for the calls whose close resolved.
C10_NativeFaultWrapped ==
  \A e \in Execs :
    Done(e) /\ GotSession(e) /\ exec[e].closed.state = "fulfilled"
      /\ exec[e].caught # Undefined /\ exec[e].caught.t = "object"
      /\ exec[e].caught.proto \in {"Error", "TypeError"}
    => exec[e].outcome = Rejected(QueryError(GenericMessage, exec[e].caught))

(***************************************************************************)
(* Claims on processResults                                                *)
(***************************************************************************)
Returned == prStatus = "returned"

\* C4: when the same node identity occurs N >= 1 times (as a Node field or as
\* the start or end of a path segment, in one record or several), the nodes
\* list has exactly one entry with that id, with the label and the properties
\* of the first occurrence.
C4_NodeOncePerIdentity ==
  Returned =>
    LET occ == NodeOccurrences(prRecords) IN
    \A i \in 1..Len(occ) :
      LET Same(n) == n.f.identity = occ[i].f.identity
          first == occ[First(occ, Same)]
          Entry(x) == x.id = IdText(occ[i].f.identity) IN
      /\ Count(prResult.nodes, Entry) = 1
      /\ \A k \in 1..Len(prResult.nodes) :
           Entry(prResult.nodes[k]) =>
             /\ prResult.nodes[k].label = LabelOf(first)
             /\ prResult.nodes[k].properties = PropertiesOf(first)

\* node 1 occurred first without labels and later as (:Person {name: 'Ann'})
C4_Witness ==
  /\ Returned
  /\ LET occ == NodeOccurrences(prRecords) IN
       /\ Len(occ) >= 3
       /\ occ[1] = N1b
       /\ \E i \in 2..Len(occ) : occ[i] = N1a
       /\ \E i \in 2..Len(occ) : occ[i] = N2
  /\ Len(prResult.nodes) = 2
  /\ prResult.nodes[1].label = <<"Node">>

\* C5: a record whose only field is a Node produces no row, so that a result
\* of one such record has rows absent; a record with a Node field and a
\* scalar field produces exactly one row, holding only the scalar field.
C5_NodeOnlyRecordHasNoRow ==
  Returned /\ Len(prRecords) = 1 =>
    LET rec == prRecords[1] IN
    /\ Len(rec) = 1 /\ rec[1].value.proto = "Node" => prResult.scalarData = Undefined
    /\ Len(rec) = 2 /\ rec[1].value.proto = "Node" /\ rec[2].value = Big5
       => prResult.scalarData =
            Arr(<<Obj("Object", (rec[2].key :> Num(HalfRadix + 5)))>>)

\* the second half of C5 alone
C5_NodeAndScalarRow ==
  Returned /\ Len(prRecords) = 1 =>
    LET rec == prRecords[1] IN
    Len(rec) = 2 /\ rec[1].value.proto = "Node" /\ rec[2].value = Big5
       => prResult.scalarData =
            Arr(<<Obj("Object", (rec[2].key :> Num(HalfRadix + 5)))>>)

\* C6 as stated: when the same relationship identity appears in N records,
\* the relationships list has exactly N entries with that id.
C6_OnePerRecord ==
  Returned =>
    LET occ == RelationshipOccurrences(prRecords) IN
    \A i \in 1..Len(occ) :
      LET Same(r) == r.f.identity = occ[i].f.identity
          Holds(rec) == Count(RelationshipsInRecord(rec), Same) > 0
          Entry(x) == x.id = IdText(occ[i].f.identity) IN
      Count(prResult.relationships, Entry) = Count(prRecords, Holds)

\* C6: relationships are never deduplicated: when the same relationship
\* identity occurs N times over the Relationship fields and the path segments
\* of all records, the relationships list has exactly N entries with that id.
C6_OnePerOccurrence ==
  Returned =>
    LET occ == RelationshipOccurrences(prRecords) IN
    \A i \in 1..Len(occ) :
      LET Same(r) == r.f.identity = occ[i].f.identity
          Entry(x) == x.id = IdText(occ[i].f.identity) IN
      Count(prResult.relationships, Entry) = Count(occ, Same)

\* relationship 9 occurred as a field and inside a path, three times or more
C6_Witness ==
  /\ Returned
  /\ LET occ == RelationshipOccurrences(prRecords)
         Is9(r) == r.f.identity = Integer(0, 9)
         Entry9(x) == x.id = <<"9">> IN
       /\ Count(occ, Is9) >= 3
       /\ \E i \in 1..Len(prRecords) : \E j \in 1..Len(prRecords[i]) :
            prRecords[i][j].value = R9
       /\ \E i \in 1..Len(prRecords) : \E j \in 1..Len(prRecords[i]) :
            prRecords[i][j].value = P2
       /\ Count(prResult.relationships, Entry9) >= 3

\* the field visited by the last step of the forEach callback
LastField == prRecords[prRi][prFi]
IsPathValue(v) == v.t = "object" /\ v.proto = "Path"

\* C7: a path value with k segments contributes exactly k relationship
\* entries, one per segment in segment order, and adds at most 2k nodes, each
\* the start or end node of a segment whose id was not present.
C7_PathDecomposition ==
  [][ (prStatus = "running" /\ prFi' = prFi + 1 /\ IsPathValue(prRecords[prRi][prFi + 1].value))
      => LET segs == SegmentsOf(prRecords[prRi][prFi + 1].value)
             k == Len(segs)
             rels0 == prSt.relationships
             nodes0 == prSt.nodes
             rels1 == prSt'.relationships
             nodes1 == prSt'.nodes IN
         /\ prStatus' = "running"
         /\ Len(rels1) = Len(rels0) + k
         /\ SubSeq(rels1, 1, Len(rels0)) = rels0
         /\ \A i \in 1..k :
              /\ rels1[Len(rels0) + i].id = IdText(segs[i].f.relationship.f.identity)
              /\ rels1[Len(rels0) + i].source = IdText(segs[i].f.relationship.f.start)
              /\ rels1[Len(rels0) + i].target = IdText(segs[i].f.relationship.f.end)
         /\ Len(nodes1) <= Len(nodes0) + 2 * k
         /\ Len(nodes1) >= Len(nodes0)
         /\ SubSeq(nodes1, 1, Len(nodes0)) = nodes0
         /\ \A j \in (Len(nodes0) + 1)..Len(nodes1) :
              /\ ~has(nodes0, nodes1[j].id)
              /\ \E i \in 1..k : nodes1[j].id \in {IdText(segs[i].f.start.f.identity),
                                                   IdText(segs[i].f.end.f.identity)}
    ]_vars

\* the two-segment path was just visited, after node 1 was already present
C7_Witness ==
  /\ prStatus = "running"
  /\ prRi <= Len(prRecords)
  /\ prFi >= 1
  /\ LastField.value = P2
  /\ Len(prSt.relationships) = 2
  /\ Len(prSt.nodes) = 2
  /\ prRi = 2

(***************************************************************************)
(* Claims on the result of execute                                         *)
(***************************************************************************)
\* C11: a query that returns zero records yields nodeCount = 0,
\* relationshipCount = 0, empty nodes and relationships, and rows absent
\* (undefined), not an empty list.
C11_ZeroRecords ==
  \A e \in Execs :
    exec[e].run = Fulfilled(<<>>) =>
      /\ exec[e].caught = Undefined
      /\ exec[e].pending.state = "fulfilled"
      /\ LET r == exec[e].pending.value IN
           /\ r.summary.nodeCount = 0
           /\ r.summary.relationshipCount = 0
           /\ r.data.nodes = <<>>
           /\ r.data.relationships = <<>>
           /\ r.data.scalarData = Undefined
           /\ r.data.scalarData # Arr(<<>>)
      /\ Done(e) /\ exec[e].closed = Fulfilled(Undefined)
           => exec[e].outcome = exec[e].pending

\* a call whose query returned no record has completed with its result
C11_Witness ==
  \E e \in Execs :
    /\ Done(e)
    /\ exec[e].run = Fulfilled(<<>>)
    /\ exec[e].outcome.state = "fulfilled"
    /\ exec[e].outcome.value.records = <<>>

(***************************************************************************)
(* Claims on rows, classification and coercion                             *)
(***************************************************************************)
\* no type guard accepts the value
IsScalarField(v) == ~isNode(v) /\ ~isRelationship(v) /\ ~isPath(v)
ScalarOnly(records) ==
  \A i \in 1..Len(records) : \A j \in 1..Len(records[i]) :
    IsScalarField(records[i][j].value)

\* C12: for a result of one record or more in which no record contains a
\* graph-shaped field, nodes and relationships are empty and rows contains
\* exactly one row per record, in record order, each row holding every field
\* of its record (and no other), with the coerced value of the field.
C12_ScalarOnlyRows ==
  Returned /\ Len(prRecords) >= 1 /\ ScalarOnly(prRecords) =>
    /\ prResult.nodes = <<>>
    /\ prResult.relationships = <<>>
    /\ prResult.scalarData.t = "array"
    /\ Len(prResult.scalarData.e) = Len(prRecords)
    /\ \A i \in 1..Len(prRecords) :
         LET row == prResult.scalarData.e[i]
             rec == prRecords[i] IN
         /\ row.t = "object"
         /\ DOMAIN row.f = {rec[j].key : j \in 1..Len(rec)}
         /\ \A j \in 1..Len(rec) : row.f[rec[j].key] = formatScalarValue(rec[j].value)

\* records [{a: 5, b: "x"}, {a: 12}] gave rows [{a: 5, b: "x"}, {a: 12}]
C12_Witness ==
  /\ Returned
  /\ prRecords = << <<Field("a", Integer(0, 5)), Field("b", StrV(<<"x">>))>>,
                    <<Field("a", Integer(0, 12))>> >>
  /\ prResult.scalarData =
       Arr(<<Obj("Object", [a |-> Num(5), b |-> StrV(<<"x">>)]),
             Obj("Object", [a |-> Num(12)])>>)

\* C13: classifying a field value never fails: a malformed value that does
\* not completely match a graph shape (here an object with a segments member
\* whose segment lacks its start node) is treated as a Scalar and goes into
\* the row of its record, and execute does not reject because of it.
C13_MalformedIsScalar ==
  \A e \in Execs :
    exec[e].run = Fulfilled(<< <<Field("p", BadPath)>> >>) =>
      /\ exec[e].caught = Undefined
      /\ exec[e].pending.state = "fulfilled"
      /\ exec[e].pending.value.data.scalarData = Arr(<<Obj("Object", [p |-> BadPath])>>)

\* the same for every shape, among them labels and properties without an
\* identity: the forEach callback never throws
C13_CallbackNeverThrows == prStatus # "thrown"

\* what the callback did with the only field of a one-field record holding a
\* shape value: the node branch set the entry of identity 7 or failed reading
\* it, the relationship branch set hasGraphData, the path branch pushed the
\* relationship of the segment, the scalar branch filled recordData
TreatedAsNode(st) ==
  /\ ~st.hasGraphData /\ Len(st.relationships) = 0 /\ DOMAIN st.recordData = {}
  /\ HasThrown(st) \/ (Len(st.nodes) = 1 /\ st.nodes[1].id = <<"7">>)
TreatedAsRelationship(st) == st.hasGraphData /\ Len(st.nodes) = 0
TreatedAsPath(st) == ~st.hasGraphData /\ Len(st.relationships) = 1 /\ Len(st.nodes) = 2
TreatedAsScalar(st) == DOMAIN st.recordData # {} /\ Len(st.nodes) = 0 /\ ~st.hasGraphData
ClassesOf(st) ==
  {c \in {"Node", "Relationship", "Path", "Scalar"} :
     \/ c = "Node" /\ TreatedAsNode(st)
     \/ c = "Relationship" /\ TreatedAsRelationship(st)
     \/ c = "Path" /\ TreatedAsPath(st)
     \/ c = "Scalar" /\ TreatedAsScalar(st)}
\* the callback runs on the field of a one-field record holding a shape value
ShapeStep ==
  /\ prStatus = "running" /\ prRi = 1 /\ prFi = 0 /\ prFi' = 1
  /\ Len(prRecords) = 1 /\ Len(prRecords[1]) = 1
  /\ prRecords[1][1].value \in ShapeValues

\* C14: every field value is given exactly one class, and it is Node if and
\* only if the value carries a label set and a property map and no
\* relationship endpoints; a value that carries a type tag and both start and
\* end endpoints is classified Relationship, also when it additionally
\* carries labels and properties.
C14_ClassByShape ==
  [][ ShapeStep =>
        LET S == DOMAIN prRecords[1][1].value.f IN
        /\ Cardinality(ClassesOf(prSt')) = 1
        /\ ("Node" \in ClassesOf(prSt'))
             <=> ({"labels", "properties"} \subseteq S /\ S \cap {"start", "end"} = {})
        /\ {"type", "start", "end"} \subseteq S => "Relationship" \in ClassesOf(prSt')
    ]_vars

\* the chain as written: exactly one class, the one of the first guard that
\* accepts the value, Node being tested before Relationship
C14_FirstGuardWins ==
  [][ ShapeStep =>
        LET S == DOMAIN prRecords[1][1].value.f
            node == {"labels", "properties"} \subseteq S
            rel == {"type", "start", "end"} \subseteq S IN
        ClassesOf(prSt') =
          {IF node THEN "Node" ELSE IF rel THEN "Relationship"
           ELSE IF "segments" \in S THEN "Path" ELSE "Scalar"}
    ]_vars

RECURSIVE FirstSeen(_)
\* seq without the later repetitions of its elements
FirstSeen(seq) ==
  IF Len(seq) = 0 THEN <<>>
  ELSE LET init == FirstSeen(SubSeq(seq, 1, Len(seq) - 1))
           last == seq[Len(seq)] IN
       IF \E i \in 1..Len(init) : init[i] = last THEN init ELSE Append(init, last)

\* C15: the output order is fixed by the input order: nodes appear in the
\* order in which their ids were first seen and relationships in the order in
\* which they were encountered, following record order, then field order
\* within a record, then segment order within a path.
C15_InputOrder ==
  Returned =>
    LET occN == NodeOccurrences(prRecords)
        occR == RelationshipOccurrences(prRecords) IN
    /\ [i \in 1..Len(prResult.nodes) |-> prResult.nodes[i].id]
         = FirstSeen([i \in 1..Len(occN) |-> IdText(occN[i].f.identity)])
    /\ [i \in 1..Len(prResult.relationships) |-> prResult.relationships[i].id]
         = [i \in 1..Len(occR) |-> IdText(occR[i].f.identity)]

\* a relationship field, then the path (1)-[9]->(2)-[8]->(1), then a node of
\* identity 1 in a later record: relationships 9, 9, 8 and nodes 1, 65537
C15_Witness ==
  /\ Returned
  /\ Len(prRecords) = 2
  /\ prRecords[1] = <<Field("a", R9), Field("b", P2)>>
  /\ prRecords[2][1].value = N1a
  /\ [i \in 1..Len(prResult.relationships) |-> prResult.relationships[i].id]
       = << <<"9">>, <<"9">>, <<"8">> >>
  /\ [i \in 1..Len(prResult.nodes) |-> prResult.nodes[i].id]
       = <<IntToString(1), IntToString(HalfRadix + 1)>>

\* every field of the record is a Relationship or a Path
GraphEdgeOnly(rec) ==
  \A j \in 1..Len(rec) :
    rec[j].value.t = "object" /\ rec[j].value.proto \in {"Relationship", "Path"}

\* C16: a record whose fields are only Relationship and/or Path values, with
\* no scalar field, contributes nothing to rows; in particular a record whose
\* only field is a Path produces no row.
C16_EdgeOnlyRecordHasNoRow ==
  Returned /\ Len(prRecords) = 1 /\ GraphEdgeOnly(prRecords[1])
    => prResult.scalarData = Undefined

\* the part that holds: such a record with a Relationship field among its
\* fields produces no row
C16_WithRelationshipField ==
  Returned /\ Len(prRecords) = 1 /\ GraphEdgeOnly(prRecords[1])
    /\ (\E j \in 1..Len(prRecords[1]) : prRecords[1][j].value.proto = "Relationship")
    => prResult.scalarData = Undefined

RECURSIVE Portable(_)
\* the portable value of a scalar as stated: a boxed integer becomes its
\* number, a list the list of the portable values of its elements, any other
\* value stays itself
Portable(v) ==
  IF v.t = "object" /\ v.proto = "Integer"
  THEN Num(v.f.high.v * HalfRadix + v.f.low.v)
  ELSE IF v.t = "array" THEN Arr([i \in 1..Len(v.e) |-> Portable(v.e[i])])
  ELSE v

RECURSIVE HoldsLowHighMap(_)
\* v is, or holds in its lists at some depth, a map with both members low and
\* high that is not a boxed integer
HoldsLowHighMap(v) ==
  \/ v.t = "object" /\ v.proto # "Integer" /\ {"low", "high"} \subseteq DOMAIN v.f
  \/ v.t = "array" /\ \E i \in 1..Len(v.e) : HoldsLowHighMap(v.e[i])

\* processResults returned for one record whose one field is a scalar
OneScalarReturned ==
  /\ Returned
  /\ Len(prRecords) = 1 /\ Len(prRecords[1]) = 1
  /\ IsScalarField(prRecords[1][1].value)

\* C17: the value coercer converts a boxed integer (high/low pair) to a
\* native number, converts the elements of a list recursively at every
\* nesting depth, and returns every other value, including maps and null,
\* unchanged.
C17_CoercerAsStated ==
  OneScalarReturned =>
    LET field == prRecords[1][1] IN
    prResult.scalarData.e[1].f[field.key] = Portable(field.value)

\* the same for the values that hold no map with both low and high
C17_ExceptLowHighMaps ==
  OneScalarReturned /\ ~HoldsLowHighMap(prRecords[1][1].value) =>
    LET field == prRecords[1][1] IN
    prResult.scalarData.e[1].f[field.key] = Portable(field.value)

(***************************************************************************)
(* Claims on concurrent calls of execute                                   *)
(***************************************************************************)
\* C18: when several execute calls are in flight at the same time, each one
\* obtains its own session from its own getSession() call, runs its query
\* only on that session and closes only that session; no execution runs a
\* query on, or closes, a session acquired by another execution.
C18_OwnSession ==
  /\ \A e \in Execs :
       GotSession(e) =>
         /\ exec[e].session \in 1..Len(sessions)
         /\ sessions[exec[e].session].owner = e
         /\ sessions[exec[e].session].runs = <<exec[e].query>>
         /\ sessions[exec[e].session].closeCalls = exec[e].closeCalls
  /\ \A e1, e2 \in Execs :
       e1 # e2 /\ GotSession(e1) /\ GotSession(e2) => exec[e1].session # exec[e2].session
  /\ \A s \in 1..Len(sessions) : exec[sessions[s].owner].session = s
  /\ \A e \in Execs : ~GotSession(e) => exec[e].closeCalls = 0

\* two calls in flight: one has closed its session and awaits the close, the
\* other still awaits its query on an open session
C18_Witness ==
  \E e1, e2 \in Execs :
    /\ e1 # e2
    /\ exec[e1].pc = "closing" /\ exec[e2].pc = "running"
    /\ exec[e1].session # exec[e2].session
    /\ sessions[exec[e1].session].closeCalls = 1
    /\ sessions[exec[e2].session].closeCalls = 0

\* the field names of a record list
KeysOf(records) ==
  UNION {{records[i][j].key : j \in 1..Len(records[i])} : i \in 1..Len(records)}

\* C19: the result of an execute call depends only on the records returned to
\* that call: its nodes are the first occurrences of the node identities in
\* its own records, its relationships the relationship occurrences in its own
\* records, its rows come from its own records, whatever an earlier or a
\* concurrently running call has accumulated; no node of it is suppressed.
C19_OwnRecordsOnly ==
  \A e \in Execs :
    exec[e].pending.state = "fulfilled" =>
      LET own == exec[e].run.value
          r == exec[e].pending.value
          occN == NodeOccurrences(own)
          occR == RelationshipOccurrences(own) IN
      /\ r.records = own
      /\ [i \in 1..Len(r.data.nodes) |-> r.data.nodes[i].id]
           = FirstSeen([i \in 1..Len(occN) |-> IdText(occN[i].f.identity)])
      /\ \A i \in 1..Len(r.data.nodes) :
           \E k \in 1..Len(occN) :
             /\ r.data.nodes[i].id = IdText(occN[k].f.identity)
             /\ r.data.nodes[i].label = LabelOf(occN[k])
             /\ r.data.nodes[i].properties = PropertiesOf(occN[k])
      /\ [i \in 1..Len(r.data.relationships) |-> r.data.relationships[i].id]
           = [i \in 1..Len(occR) |-> IdText(occR[i].f.identity)]
      /\ r.summary.nodeCount = Len(FirstSeen([i \in 1..Len(occN) |-> IdText(occN[i].f.identity)]))
      /\ r.summary.relationshipCount = Len(occR)
      /\ r.data.scalarData # Undefined =>
           /\ Len(r.data.scalarData.e) <= Len(own)
           /\ \A i \in 1..Len(r.data.scalarData.e) :
                DOMAIN r.data.scalarData.e[i].f \subseteq KeysOf(own)

\* one call returned a node, a relationship and a row, and another call, run
\* after it or alongside it, returned the empty result of its zero records
C19_Witness ==
  \E e1, e2 \in Execs :
    /\ e1 # e2
    /\ exec[e1].pending.state = "fulfilled" /\ exec[e2].pending.state = "fulfilled"
    /\ Len(exec[e1].pending.value.data.nodes) = 1
    /\ Len(exec[e1].pending.value.data.relationships) = 1
    /\ exec[e1].pending.value.data.scalarData # Undefined
    /\ exec[e2].run.value = <<>>
    /\ exec[e2].pending.value.data.nodes = <<>>
    /\ exec[e2].pending.value.data.scalarData = Undefined

(***************************************************************************)
(* Claims on Neo4jConnection                                               *)
(***************************************************************************)
\* execute of caller e calls getSession in this step
CallsGetSession(e) == exec[e].pc = "idle" /\ exec'[e].pc # "idle"

\* C20: getSession() fails with a ConnectionError in every state in which the
\* manager is not connected (before any successful connect, after disconnect,
\* after a failed connect) and returns a new session from the current driver
\* in every state in which it is connected.
C20_GetSession ==
  [][ \A e \in Execs :
        CallsGetSession(e) =>
          IF isConnected
          THEN /\ driver # 0
               /\ exec'[e].caught = Undefined
               /\ exec'[e].session = Len(sessions) + 1
               /\ Len(sessions') = Len(sessions) + 1
               /\ sessions'[Len(sessions')].driver = driver
               /\ sessions'[Len(sessions')].closeCalls = 0
          ELSE /\ exec'[e].caught = ConnectionError(NotConnectedMessage, Undefined)
               /\ exec'[e].session = 0
               /\ sessions' = sessions
    ]_vars

\* the first half alone: not connected, getSession throws the ConnectionError
C20_NotConnectedThrows ==
  [][ \A e \in Execs :
        CallsGetSession(e) /\ ~isConnected =>
          /\ exec'[e].caught = ConnectionError(NotConnectedMessage, Undefined)
          /\ exec'[e].session = 0
          /\ sessions' = sessions
    ]_vars

(***************************************************************************)
(* Claims on the summary and on the order of the steps of execute          *)
(***************************************************************************)
\* C21: on every successful execute, summary.nodeCount equals the number of
\* entries in the returned nodes list (the number of distinct node ids seen)
\* and summary.relationshipCount equals the number of entries in the returned
\* relationships list.
C21_SummaryCounts ==
  \A e \in Execs :
    Done(e) /\ exec[e].outcome.state = "fulfilled" =>
      LET r == exec[e].outcome.value
          occN == NodeOccurrences(r.records) IN
      /\ r.summary.nodeCount = Len(r.data.nodes)
      /\ r.summary.nodeCount
           = Cardinality({IdText(occN[i].f.identity) : i \in 1..Len(occN)})
      /\ r.summary.relationshipCount = Len(r.data.relationships)
      /\ r.summary.query = exec[e].query

\* a call succeeded with one node and no relationship
C21_Witness ==
  \E e \in Execs :
    /\ Done(e) /\ exec[e].outcome.state = "fulfilled"
    /\ exec[e].outcome.value.summary.nodeCount = 1
    /\ exec[e].outcome.value.summary.relationshipCount = 0
    /\ Len(exec[e].outcome.value.data.nodes) = 1

\* C22: for a call that obtained a session: on a failed run the error is
\* classified first and the session is released afterwards (when close() is
\* invoked the catch block has already produced the QueryError the call is to
\* reject with), and in every case the promise returned by execute settles
\* (resolves or rejects) only after session.close() has been invoked and has
\* settled.
C22_ClassifyReleaseSettle ==
  [][ \A e \in Execs :
        /\ exec'[e].closeCalls # exec[e].closeCalls =>
             /\ exec[e].closeCalls = 0 /\ exec'[e].closeCalls = 1
             /\ sessions'[exec'[e].session].closeCalls = 1
             /\ exec'[e].pending # Pending
             /\ exec'[e].outcome = Pending
             /\ exec'[e].closed = Pending
             /\ exec'[e].run.state = "rejected" =>
                  /\ exec'[e].pending.state = "rejected"
                  /\ exec'[e].pending.reason.proto = "QueryError"
        /\ (GotSession(e) /\ exec[e].outcome = Pending /\ exec'[e].outcome # Pending) =>
             /\ exec[e].closeCalls = 1
             /\ sessions[exec[e].session].closeCalls = 1
             /\ exec'[e].closed # Pending
    ]_vars

\* a call whose run failed has rejected with the classified error after its
\* close() resolved
C22_Witness ==
  \E e \in Execs :
    /\ Done(e) /\ GotSession(e)
    /\ exec[e].run.state = "rejected"
    /\ exec[e].closed = Fulfilled(Undefined)
    /\ exec[e].outcome.state = "rejected"
    /\ exec[e].outcome.reason.proto = "QueryError"
    /\ exec[e].outcome = exec[e].pending

\* the step in which session.run of caller e resolves and the records are
\* processed without an exception
ProcessesRecords(e) ==
  /\ exec[e].pc = "running"
  /\ exec'[e].run.state = "fulfilled"
  /\ exec'[e].pending.state = "fulfilled"

\* C23 as stated: the execution timer is started when the query is submitted
\* and is stopped only after every returned record has been classified and
\* accumulated, so the reported execution time spans query submission through
\* the end of record processing.
C23_TimerSpansProcessing ==
  [][ \A e \in Execs :
        /\ CallsGetSession(e) => exec'[e].startTime = now
        /\ ProcessesRecords(e) =>
             exec'[e].pending.value.summary.executionTime = now' - exec[e].startTime
    ]_vars

\* C23: the execution timer is started when execute is called, in the same
\* synchronous step that submits the query, and is stopped as soon as
\* session.run resolves, before any record is processed: the reported
\* execution time spans the call through the arrival of the result and
\* leaves out the time processResults takes.
C23_TimerStopsAtResolve ==
  [][ \A e \in Execs :
        /\ CallsGetSession(e) => exec'[e].startTime = now
        /\ ProcessesRecords(e) =>
             /\ exec'[e].pending.value.summary.executionTime = now - exec[e].startTime
             /\ exec'[e].pending.value.summary.executionTime >= 0
             /\ exec'[e].pending.value.summary.executionTime <= now' - exec[e].startTime
        /\ exec[e].pc # "idle" => exec'[e].startTime = exec[e].startTime
    ]_vars

\* a call submitted at time 1 whose result arrived one unit later was
\* reported with execution time 1 although record processing took time too
C23_Witness ==
  \E e \in Execs :
    /\ Done(e) /\ exec[e].outcome.state = "fulfilled"
    /\ exec[e].startTime = 1
    /\ exec[e].outcome.value.summary.executionTime = 1
    /\ Len(exec[e].outcome.value.records) = 1
    /\ now > 2

(***************************************************************************)
(* Claims on connect, disconnect and testConnection                        *)
(***************************************************************************)
\* the code of a thrown Error, or <<>> when it has none
CodeOf(error) ==
  IF error.t = "object" /\ error.proto \in ErrorClasses /\ "code" \in DOMAIN error.f
       /\ error.f.code.t = "string"
  THEN error.f.code.v ELSE <<>>
\* reason is the ConnectionError stated for the failure error
IsConnectionErrorFor(reason, error, generic) ==
  /\ reason.t = "object" /\ reason.proto = "ConnectionError"
  /\ reason.f.message.v =
       (IF CodeOf(error) = <<"ServiceUnavailable">>
        THEN <<"Cannot reach database server. Check URL and ensure Neo4j is running.">>
        ELSE IF CodeOf(error) = <<"Neo.ClientError.Security.", "Unauthorized">>
        THEN <<"Invalid username or password.">>
        ELSE generic)
  /\ reason.f.originalError =
       (IF error.t = "object" /\ error.proto \in ErrorClasses THEN error ELSE Undefined)

\* C24: every failure of connect() and of testConnection() reaches the caller
\* as a ConnectionError: a ServiceUnavailable code gives the
\* cannot-reach-server message, an Unauthorized code gives the
\* invalid-credentials message, anything else gives a generic message, and
\* the original error is attached as cause whenever it is an Error.
C24_FailuresAreConnectionErrors ==
  /\ \A c \in DOMAIN conn :
       conn[c].outcome.state = "rejected" =>
         IsConnectionErrorFor(conn[c].outcome.reason, conn[c].error,
           <<"Failed to establish connection. Check console for details.">>)
  /\ \A c \in DOMAIN conn :
       conn[c].pc = "done" /\ conn[c].error # Undefined => conn[c].outcome.state = "rejected"
  /\ \A t \in Tests :
       test[t].outcome.state = "rejected" =>
         IsConnectionErrorFor(test[t].outcome.reason, test[t].error,
           <<"Connection test failed. Check console for details.">>)
  /\ \A t \in Tests :
       test[t].pc = "done" /\ test[t].error # Undefined => test[t].outcome.state = "rejected"

\* connect failed on bad credentials and testConnection on a native fault
C24_Witness ==
  /\ \E c \in DOMAIN conn :
       /\ conn[c].error = Unauthorized
       /\ conn[c].outcome.state = "rejected"
       /\ conn[c].outcome.reason.f.message.v = <<"Invalid username or password.">>
  /\ \E t \in Tests :
       /\ test[t].error = NativeFault
       /\ test[t].outcome.state = "rejected"
       /\ test[t].outcome.reason.f.originalError = NativeFault

\* C25: whenever getConnectionStatus() reports connected = true, getSession()
\* succeeds: in every reachable state of Neo4jConnection, including states
\* reached by overlapping connect() calls in which one call fails and runs
\* disconnect() while another is still awaiting verifyConnectivity,
\* isConnected = true implies that driver is not null.
C25_ConnectedHasDriver ==
  isConnected => (driver # 0 /\ getSessionThrows = Undefined)

\* C26: every driver created by connect() is, at all times, either the
\* manager's current driver or has had close() called on it: overlapping or
\* repeated connect() calls never leave an unclosed driver that the manager
\* no longer references.
C26_NoUnclosedDriver ==
  \A d \in 1..Len(drivers) : d = driver \/ drivers[d].closeCalls >= 1

\* C27: testConnection() calls close() on the temporary driver it creates on
\* every exit path, including the path where verifyConnectivity fails and a
\* ConnectionError is thrown.
C27_TestDriverClosed ==
  \A t \in Tests :
    test[t].pc = "done" => (test[t].created = 1 /\ test[t].closeCalls = 1)

\* the path on which verifyConnectivity resolved
C27_ClosedAfterVerify ==
  \A t \in Tests :
    test[t].pc = "done" /\ test[t].outcome.state = "fulfilled" => test[t].closeCalls = 1

\* C28: after a connect() call that runs alone rejects, the manager is fully
\* disconnected: driver is null, config is null, isConnected is false, and
\* the driver that the call created has been closed.
C28_RejectedConnectDisconnects ==
  \A c \in Conns :
    conn[c].outcome.state = "rejected" =>
      /\ driver = 0
      /\ config = Null
      /\ isConnected = FALSE
      /\ getSessionThrows # Undefined
      /\ Len(drivers) = 1
      /\ drivers[1].closeCalls = 1

\* the lone call was rejected for bad credentials
C28_Witness ==
  \E c \in Conns :
    /\ conn[c].pc = "done"
    /\ conn[c].error = Unauthorized
    /\ conn[c].outcome.state = "rejected"
    /\ Len(drivers) = 1

\* caller c calls connect in this step
CallsConnect(c) == conn[c].pc = "idle" /\ conn'[c].pc # "idle"
ReturnsAtOnce(c) ==
  /\ conn'[c].pc = "done"
  /\ conn'[c].outcome = Fulfilled(Undefined)
  /\ drivers' = drivers
  /\ driver' = driver
  /\ config' = config
  /\ isConnected' = isConnected

\* C29: connect() called while the manager is already connected (its status
\* reports connected) returns without creating a driver and leaves driver,
\* config and isConnected unchanged, even when the configuration passed in
\* differs from the one in use.
C29_ConnectWhenConnected ==
  [][ \A c \in ConnCallers : CallsConnect(c) /\ isConnected => ReturnsAtOnce(c) ]_vars

\* the same in the states in which the connected manager holds a driver
C29_WhenDriverPresent ==
  [][ \A c \in ConnCallers :
        CallsConnect(c) /\ isConnected /\ driver # 0 => ReturnsAtOnce(c) ]_vars

\* such a call was made with another configuration than the one in use
C29_DifferentConfigReached ==
  ~(\E c \in ConnCallers :
      /\ conn[c].pc = "done" /\ conn[c].outcome = Fulfilled(Undefined)
      /\ isConnected /\ driver # 0
      /\ conn[c].config # config
      /\ Len(drivers) = 1)

(***************************************************************************)
(* Claims on executeQuery                                                  *)
(***************************************************************************)
\* C30: executeQuery keeps the execute button disabled from the start of an
\* execution until it ends, and when the execution ends it always restores
\* the button's original text and enabled state, whether the query
\* succeeded, the auto-connect failed, the query failed or displaying the
\* results threw.
C30_ButtonDisabledThenRestored ==
  /\ ui.pc \in {"connecting", "executing"} =>
       /\ button.disabled
       /\ button.text = ExecutingText
       /\ ui.originalText = ButtonText
  /\ ui.pc = "done" =>
       /\ ~button.disabled
       /\ button.text = ui.originalText
       /\ button.text = ButtonText
  /\ ui.pc = "idle" => (~button.disabled /\ button.text = ButtonText)

\* the query succeeded after an auto-connect, displaying its results threw,
\* and the button is back
C30_Witness ==
  /\ ui.pc = "done"
  /\ conn[UIConn].outcome = Fulfilled(Undefined)
  /\ exec[UIExec].outcome.state = "fulfilled"
  /\ ui.caught # Undefined
  /\ Len(ui.shown) = 2
  /\ button = [text |-> ButtonText, disabled |-> FALSE]

\* the other ends: success, failed auto-connect, failed query
C30_SuccessReached ==
  ~(ui.pc = "done" /\ ui.caught = Undefined /\ exec[UIExec].outcome.state = "fulfilled")
C30_ConnectFailedReached ==
  ~(ui.pc = "done" /\ conn[UIConn].outcome.state = "rejected" /\ exec[UIExec].pc = "idle")
C30_QueryFailedReached ==
  ~(ui.pc = "done" /\ exec[UIExec].outcome.state = "rejected"
      /\ ui.caught.proto = "QueryError")

====
